---- MODULE Spec2Model ----
(***************************************************************************)
(* Model of example/host_pc.py: the 20-byte frame header codec, the MSGF   *)
(* snapshot codec and the HostSender frame transmitter.                    *)
(*                                                                         *)
(* Python integers are unbounded, and several of the values of interest    *)
(* (the sequence counter at 2^32, odo_m at 2^31) do not fit the integers   *)
(* of the model checker.  A Python int n is therefore represented by the   *)
(* record [hi |-> n \div 65536, lo |-> n % 65536] (floor division), which  *)
(* is exact for every |n| < 2^47.                                          *)
(*                                                                         *)
(* A byte buffer is [bytes |-> <<b1, ..., bk>>, tail |-> t]: k bytes whose *)
(* values are tracked, followed by t bytes whose values are not (the body  *)
(* of an image).  Its length is k + t.                                     *)
(***************************************************************************)
EXTENDS Integers, Sequences, FiniteSets, TLC

VARIABLES seq, wire, log, call, clock, args, run

vars == <<seq, wire, log, call, clock, args, run>>

(***************************************************************************)
(* Bounds of the model.                                                    *)
(***************************************************************************)
MaxCalls == 3
MaxFails == 1
MaxTicks == 3

(***************************************************************************)
(* Python integers.                                                        *)
(***************************************************************************)
PyInt(n) == [hi |-> n \div 65536, lo |-> n % 65536]

PyInc(w) == IF w.lo = 65535 THEN [hi |-> w.hi + 1, lo |-> 0]
                            ELSE [hi |-> w.hi, lo |-> w.lo + 1]

And8(w) == [hi |-> 0, lo |-> w.lo % 256]

And16(w) == [hi |-> 0, lo |-> w.lo]

And32(w) == [hi |-> w.hi % 65536, lo |-> w.lo]

(***************************************************************************)
(* Byte buffers.                                                           *)
(***************************************************************************)
Buf(bs) == [bytes |-> bs, tail |-> 0]

BufLen(b) == Len(b.bytes) + b.tail

Prefix(b, n) ==
    IF n >= BufLen(b) THEN b
    ELSE IF n <= Len(b.bytes) THEN [bytes |-> SubSeq(b.bytes, 1, n), tail |-> 0]
    ELSE [bytes |-> b.bytes, tail |-> n - Len(b.bytes)]

(***************************************************************************)
(* Program constants.                                                      *)
(***************************************************************************)
MAX_PNG_SIZE == 200 * 1024

MAGIC_MSGF == <<77, 83, 71, 70>>

MAGIC_IMGF == <<73, 77, 71, 70>>

MSG_CMD_SNAPSHOT == 0

MSG_CMD_REBOOT == 1

(***************************************************************************)
(* struct.pack with a little-endian, unpadded format ("<...").  A value    *)
(* outside the range of its format character raises struct.error and       *)
(* nothing is produced.                                                    *)
(***************************************************************************)
LE16(v) == <<v % 256, v \div 256>>

Fits(c, w) ==
    CASE c = "B" -> w.hi = 0 /\ w.lo <= 255
      [] c = "h" -> \/ w.hi = 0 /\ w.lo <= 32767
                    \/ w.hi = -1 /\ w.lo >= 32768
      [] c = "H" -> w.hi = 0
      [] c = "i" -> w.hi >= -32768 /\ w.hi <= 32767
      [] c = "I" -> w.hi >= 0 /\ w.hi <= 65535

Enc(c, w) ==
    CASE c = "B" -> <<w.lo>>
      [] c \in {"h", "H"} -> LE16(w.lo)
      [] c \in {"i", "I"} -> LE16(w.lo) \o LE16(w.hi % 65536)

RECURSIVE EncAll(_, _)
EncAll(fmt, vals) ==
    IF fmt = <<>> THEN <<>>
    ELSE Enc(Head(fmt), Head(vals)) \o EncAll(Tail(fmt), Tail(vals))

struct_pack(fmt, vals) ==
    IF \A i \in 1..Len(fmt) : Fits(fmt[i], vals[i])
    THEN [err |-> "none", val |-> EncAll(fmt, vals)]
    ELSE [err |-> "struct.error", val |-> <<>>]

(***************************************************************************)
(* u32_le_from_magic: struct.unpack("<I", magic4) of exactly 4 bytes.      *)
(***************************************************************************)
u32_le_from_magic_nocheck(magic4) ==
    IF Len(magic4) # 4
    THEN [err |-> "none", val |-> PyInt(0)]
    ELSE [err |-> "none",
          val |-> [hi |-> magic4[3] + 256 * magic4[4],
                   lo |-> magic4[1] + 256 * magic4[2]]]

u32_le_from_magic_be(magic4) ==
    IF Len(magic4) # 4
    THEN [err |-> "ValueError", val |-> PyInt(0)]
    ELSE [err |-> "none",
          val |-> [hi |-> magic4[2] + 256 * magic4[1],
                   lo |-> magic4[4] + 256 * magic4[3]]]

u32_le_from_magic(magic4) ==
    IF Len(magic4) # 4
    THEN [err |-> "ValueError", val |-> PyInt(0)]
    ELSE [err |-> "none",
          val |-> [hi |-> magic4[3] + 256 * magic4[4],
                   lo |-> magic4[1] + 256 * magic4[2]]]

(***************************************************************************)
(* pack_header: struct.pack("<IBBHIII", magic, typ & 0xFF, flags & 0xFF,   *)
(* 0, payload_len, crc32 & 0xFFFFFFFF, seq & 0xFFFFFFFF).                  *)
(***************************************************************************)
HeaderFmt == <<"I", "B", "B", "H", "I", "I", "I">>

pack_header_nomask(magic4, payload_len, s, typ, flags, crc32) ==
    LET m == u32_le_from_magic(magic4) IN
    IF m.err # "none" THEN [err |-> m.err, val |-> <<>>]
    ELSE struct_pack(HeaderFmt,
                     <<m.val, And8(typ), And8(flags), PyInt(0), payload_len,
                       And32(crc32), s>>)

pack_header_total_len(magic4, payload_len, s, typ, flags, crc32) ==
    LET m == u32_le_from_magic(magic4) IN
    IF m.err # "none" THEN [err |-> m.err, val |-> <<>>]
    ELSE struct_pack(HeaderFmt,
                     <<m.val, And8(typ), And8(flags), PyInt(0),
                       [hi |-> payload_len.hi, lo |-> payload_len.lo + 20],
                       And32(crc32), And32(s)>>)

pack_header(magic4, payload_len, s, typ, flags, crc32) ==
    LET m == u32_le_from_magic(magic4) IN
    IF m.err # "none" THEN [err |-> m.err, val |-> <<>>]
    ELSE struct_pack(HeaderFmt,
                     <<m.val, And8(typ), And8(flags), PyInt(0), payload_len,
                       And32(crc32), And32(s)>>)

(***************************************************************************)
(* Python strings are sequences of one-character strings.  strip removes   *)
(* leading and trailing blanks, split cuts at every separator, and py_int  *)
(* is int(str): blanks around an optional sign and decimal digits, with    *)
(* single underscores allowed between digits; anything else raises         *)
(* ValueError.                                                             *)
(***************************************************************************)
Digits == <<"0", "1", "2", "3", "4", "5", "6", "7", "8", "9">>

IsDigit(c) == \E k \in 1..10 : Digits[k] = c

DigitVal(c) == (CHOOSE k \in 1..10 : Digits[k] = c) - 1

RECURSIVE lstrip(_)
lstrip(s) == IF s # <<>> /\ Head(s) = " " THEN lstrip(Tail(s)) ELSE s

RECURSIVE rstrip(_)
rstrip(s) ==
    IF s # <<>> /\ s[Len(s)] = " " THEN rstrip(SubSeq(s, 1, Len(s) - 1)) ELSE s

strip(s) == rstrip(lstrip(s))

RECURSIVE split(_, _)
split(s, sep) ==
    IF \E k \in 1..Len(s) : s[k] = sep
    THEN LET k == CHOOSE k \in 1..Len(s) :
                     s[k] = sep /\ \A j \in 1..(k - 1) : s[j] # sep
         IN  <<SubSeq(s, 1, k - 1)>> \o split(SubSeq(s, k + 1, Len(s)), sep)
    ELSE <<s>>

RECURSIVE DigitsVal(_)
DigitsVal(s) ==
    IF s = <<>> THEN 0
    ELSE IF s[Len(s)] = "_" THEN DigitsVal(SubSeq(s, 1, Len(s) - 1))
    ELSE 10 * DigitsVal(SubSeq(s, 1, Len(s) - 1)) + DigitVal(s[Len(s)])

py_int(str) ==
    LET t == strip(str)
        signed == t # <<>> /\ Head(t) \in {"+", "-"}
        d == IF signed THEN Tail(t) ELSE t
        wellformed ==
            /\ d # <<>>
            /\ IsDigit(d[1]) /\ IsDigit(d[Len(d)])
            /\ \A k \in 1..Len(d) : IsDigit(d[k]) \/ d[k] = "_"
            /\ \A k \in 1..(Len(d) - 1) : ~(d[k] = "_" /\ d[k + 1] = "_")
    IN  IF ~wellformed THEN [err |-> "ValueError", val |-> 0]
        ELSE [err |-> "none",
              val |-> IF signed /\ Head(t) = "-" THEN 0 - DigitsVal(d)
                                                 ELSE DigitsVal(d)]

(***************************************************************************)
(* hhmm_to_minutes: strip, split at ":" into exactly two parts (unpacking  *)
(* any other number of parts raises ValueError), int() of each, range      *)
(* check, h * 60 + m.                                                      *)
(***************************************************************************)
hhmm_to_minutes_upto24(hhmm) ==
    LET parts == split(strip(hhmm), ":") IN
    IF Len(parts) # 2 THEN [err |-> "ValueError", val |-> 0]
    ELSE LET h == py_int(parts[1])
             m == py_int(parts[2])
         IN  IF h.err # "none" THEN [err |-> h.err, val |-> 0]
             ELSE IF m.err # "none" THEN [err |-> m.err, val |-> 0]
             ELSE IF ~(0 <= h.val /\ h.val <= 24 /\ 0 <= m.val /\ m.val <= 59)
             THEN [err |-> "ValueError", val |-> 0]
             ELSE [err |-> "none", val |-> h.val * 60 + m.val]

hhmm_to_minutes(hhmm) ==
    LET parts == split(strip(hhmm), ":") IN
    IF Len(parts) # 2 THEN [err |-> "ValueError", val |-> 0]
    ELSE LET h == py_int(parts[1])
             m == py_int(parts[2])
         IN  IF h.err # "none" THEN [err |-> h.err, val |-> 0]
             ELSE IF m.err # "none" THEN [err |-> m.err, val |-> 0]
             ELSE IF ~(0 <= h.val /\ h.val <= 23 /\ 0 <= m.val /\ m.val <= 59)
             THEN [err |-> "ValueError", val |-> 0]
             ELSE [err |-> "none", val |-> h.val * 60 + m.val]

(***************************************************************************)
(* MsgfSnapshot and MsgfSnapshot.pack: struct.pack("<hhiihhhHHHH", ...),   *)
(* where only the last four fields are masked with 0xFFFF.                 *)
(***************************************************************************)
SnapFields == <<"speed_kmh", "engine_rpm", "odo_m", "trip_odo_m",
                "outside_temp_c", "inside_temp_c", "battery_mv",
                "curr_time_min", "trip_time_min", "fuel_left_dl",
                "fuel_total_dl">>

SnapFmt == <<"h", "h", "i", "i", "h", "h", "h", "H", "H", "H", "H">>

MsgfSnapshot ==
    [speed_kmh |-> PyInt(0), engine_rpm |-> PyInt(0), odo_m |-> PyInt(0),
     trip_odo_m |-> PyInt(0), outside_temp_c |-> PyInt(0),
     inside_temp_c |-> PyInt(0), battery_mv |-> PyInt(12000),
     curr_time_min |-> PyInt(0), trip_time_min |-> PyInt(0),
     fuel_left_dl |-> PyInt(0), fuel_total_dl |-> PyInt(0)]

MsgfSnapshot_pack_nomask(self) ==
    struct_pack(SnapFmt,
                <<self.speed_kmh, self.engine_rpm, self.odo_m, self.trip_odo_m,
                  self.outside_temp_c, self.inside_temp_c, self.battery_mv,
                  self.curr_time_min, And16(self.trip_time_min),
                  And16(self.fuel_left_dl), And16(self.fuel_total_dl)>>)

MsgfSnapshot_pack(self) ==
    struct_pack(SnapFmt,
                <<self.speed_kmh, self.engine_rpm, self.odo_m, self.trip_odo_m,
                  self.outside_temp_c, self.inside_temp_c, self.battery_mv,
                  And16(self.curr_time_min), And16(self.trip_time_min),
                  And16(self.fuel_left_dl), And16(self.fuel_total_dl)>>)

(***************************************************************************)
(* The serial transport.  wire holds, per ser.write call that was made,    *)
(* the bytes that reached the transport.  A write either delivers its      *)
(* whole buffer, or raises after delivering a proper prefix of it; io says *)
(* which write of a frame fails (at) and how many bytes it still delivers  *)
(* (n).                                                                    *)
(***************************************************************************)
IoOk == [at |-> "none", n |-> 0]

IoFailures == {[at |-> a, n |-> k] : a \in {"hdr", "payload"}, k \in {0, 5}}

Partial(b, n) == Prefix(b, IF n < BufLen(b) THEN n ELSE 0)

Raise(e, s) == [err |-> e, writes |-> <<>>, seq |-> s]

(***************************************************************************)
(* HostSender.send_frame: pack the header with the current self.seq, write *)
(* the header, write the payload, then self.seq += 1.  An exception leaves *)
(* the method at the statement that raised it.  The result is the error    *)
(* raised (or "none"), the writes made and the value of self.seq after.    *)
(***************************************************************************)
send_frame_crc(self_seq, magic4, payload, typ, flags, io) ==
    LET hdr == pack_header(magic4, PyInt(BufLen(payload)), self_seq, typ, flags,
                           PyInt(BufLen(payload)))
    IN  IF hdr.err # "none" THEN Raise(hdr.err, self_seq)
        ELSE IF io.at = "hdr"
        THEN [err |-> "SerialException",
              writes |-> <<Partial(Buf(hdr.val), io.n)>>, seq |-> self_seq]
        ELSE IF io.at = "payload"
        THEN [err |-> "SerialException",
              writes |-> <<Buf(hdr.val), Partial(payload, io.n)>>,
              seq |-> self_seq]
        ELSE [err |-> "none", writes |-> <<Buf(hdr.val), payload>>,
              seq |-> PyInc(self_seq)]

send_frame_noinc(self_seq, magic4, payload, typ, flags, io) ==
    LET hdr == pack_header(magic4, PyInt(BufLen(payload)), self_seq, typ, flags,
                           PyInt(0))
    IN  IF hdr.err # "none" THEN Raise(hdr.err, self_seq)
        ELSE IF io.at = "hdr"
        THEN [err |-> "SerialException",
              writes |-> <<Partial(Buf(hdr.val), io.n)>>, seq |-> self_seq]
        ELSE IF io.at = "payload"
        THEN [err |-> "SerialException",
              writes |-> <<Buf(hdr.val), Partial(payload, io.n)>>,
              seq |-> self_seq]
        ELSE [err |-> "none", writes |-> <<Buf(hdr.val), payload>>,
              seq |-> self_seq]

send_frame(self_seq, magic4, payload, typ, flags, io) ==
    LET hdr == pack_header(magic4, PyInt(BufLen(payload)), self_seq, typ, flags,
                           PyInt(0))
    IN  IF hdr.err # "none" THEN Raise(hdr.err, self_seq)
        ELSE IF io.at = "hdr"
        THEN [err |-> "SerialException",
              writes |-> <<Partial(Buf(hdr.val), io.n)>>, seq |-> self_seq]
        ELSE IF io.at = "payload"
        THEN [err |-> "SerialException",
              writes |-> <<Buf(hdr.val), Partial(payload, io.n)>>,
              seq |-> self_seq]
        ELSE [err |-> "none", writes |-> <<Buf(hdr.val), payload>>,
              seq |-> PyInc(self_seq)]

(***************************************************************************)
(* HostSender.send_msgf and HostSender.send_msgf_cmd_only.                 *)
(***************************************************************************)
send_msgf_by_cmd(self_seq, snap, cmd, io) ==
    LET c == struct_pack(<<"B">>, <<And8(cmd)>>)
        p == MsgfSnapshot_pack(snap)
    IN  IF c.err # "none" THEN Raise(c.err, self_seq)
        ELSE IF And8(cmd) = PyInt(MSG_CMD_REBOOT)
        THEN send_frame(self_seq, MAGIC_MSGF, Buf(c.val), PyInt(0), PyInt(0), io)
        ELSE IF p.err # "none" THEN Raise(p.err, self_seq)
        ELSE send_frame(self_seq, MAGIC_MSGF, Buf(c.val \o p.val), PyInt(0),
                        PyInt(0), io)

send_msgf(self_seq, snap, cmd, io) ==
    LET c == struct_pack(<<"B">>, <<And8(cmd)>>)
        p == MsgfSnapshot_pack(snap)
    IN  IF c.err # "none" THEN Raise(c.err, self_seq)
        ELSE IF p.err # "none" THEN Raise(p.err, self_seq)
        ELSE send_frame(self_seq, MAGIC_MSGF, Buf(c.val \o p.val), PyInt(0),
                        PyInt(0), io)

send_msgf_cmd_only(self_seq, cmd, io) ==
    LET c == struct_pack(<<"B">>, <<And8(cmd)>>)
    IN  IF c.err # "none" THEN Raise(c.err, self_seq)
        ELSE send_frame(self_seq, MAGIC_MSGF, Buf(c.val), PyInt(0), PyInt(0), io)

(***************************************************************************)
(* HostSender.send_imgf, send_imgf_bytes and send_imgf_r565_bytes.  file   *)
(* is what open(png_path, "rb").read() returns, or NoFile when open fails. *)
(***************************************************************************)
NoFile == [bytes |-> <<>>, tail |-> -1]

send_imgf(self_seq, file, io) ==
    IF file = NoFile THEN Raise("OSError", self_seq)
    ELSE send_frame(self_seq, MAGIC_IMGF, file, PyInt(0), PyInt(0), io)

send_imgf_bytes(self_seq, png, io) ==
    send_frame(self_seq, MAGIC_IMGF, png, PyInt(0), PyInt(0), io)

send_imgf_r565_bytes(self_seq, frame, io) ==
    send_frame(self_seq, MAGIC_IMGF, frame, PyInt(0), PyInt(0), io)

(***************************************************************************)
(* Inputs of the calls.                                                    *)
(***************************************************************************)
PngSmall == [bytes |-> <<137, 80, 78>>, tail |-> 0]

PngMax == [bytes |-> <<137, 80, 78, 71>>, tail |-> MAX_PNG_SIZE - 4]

PngTooLarge == [bytes |-> <<137, 80, 78, 71>>, tail |-> MAX_PNG_SIZE - 3]

R565Small == [bytes |-> <<82, 53, 54, 53, 1, 0, 1, 0, 0, 248>>, tail |-> 0]

R565TooLarge == [bytes |-> <<82, 53, 54, 53, 64, 1, 64, 1>>, tail |-> 204800]

SnapOnce ==
    [speed_kmh |-> PyInt(80), engine_rpm |-> PyInt(1800), odo_m |-> PyInt(123000),
     trip_odo_m |-> PyInt(12340), outside_temp_c |-> PyInt(5),
     inside_temp_c |-> PyInt(22), battery_mv |-> PyInt(12150),
     curr_time_min |-> PyInt(754), trip_time_min |-> PyInt(0),
     fuel_left_dl |-> PyInt(360), fuel_total_dl |-> PyInt(520)]

MsgfArgs == {[snap |-> SnapOnce, cmd |-> PyInt(MSG_CMD_SNAPSHOT)],
             [snap |-> SnapOnce, cmd |-> PyInt(MSG_CMD_REBOOT)],
             [snap |-> [SnapOnce EXCEPT !.speed_kmh = PyInt(40000)],
              cmd |-> PyInt(MSG_CMD_SNAPSHOT)]}

CmdOnlyArgs == {PyInt(MSG_CMD_REBOOT), PyInt(256)}

FrameArgs ==
    {[magic4 |-> MAGIC_MSGF, payload |-> Buf(<<>>), typ |-> PyInt(258),
      flags |-> PyInt(3)],
     [magic4 |-> <<77, 83, 71>>, payload |-> Buf(<<1>>), typ |-> PyInt(0),
      flags |-> PyInt(0)],
     [magic4 |-> <<73, 77, 71, 70, 0>>, payload |-> PngSmall, typ |-> PyInt(0),
      flags |-> PyInt(0)]}

(***************************************************************************)
(* The state: seq is HostSender.seq, wire the transport, log the history   *)
(* of the calls made on the sender (what was called with which arguments,  *)
(* what it raised, and where its writes start on the wire).                *)
(***************************************************************************)
NoArg == Buf(<<>>)

NumFails == Cardinality({i \in 1..Len(log) : log[i].err = "SerialException"})

IoChoices == IF NumFails < MaxFails THEN {IoOk} \cup IoFailures ELSE {IoOk}

Sends(op, magic4, payload, cmd, snap, r) ==
    /\ seq' = r.seq
    /\ wire' = wire \o r.writes
    /\ log' = Append(log, [op |-> op, magic4 |-> magic4, payload |-> payload,
                           cmd |-> cmd, snap |-> snap, err |-> r.err,
                           at |-> Len(wire) + 1, nw |-> Len(r.writes)])

Returns(op, magic4, payload, cmd, snap, r) ==
    /\ Sends(op, magic4, payload, cmd, snap, r)
    /\ UNCHANGED <<call, clock, args, run>>

Call_send_frame ==
    /\ Len(log) < MaxCalls
    /\ \E a \in FrameArgs, io \in IoChoices :
          Returns("send_frame", a.magic4, a.payload, PyInt(0), MsgfSnapshot,
                  send_frame(seq, a.magic4, a.payload, a.typ, a.flags, io))

Call_send_msgf ==
    /\ Len(log) < MaxCalls
    /\ \E a \in MsgfArgs, io \in IoChoices :
          Returns("send_msgf", MAGIC_MSGF, NoArg, a.cmd, a.snap,
                  send_msgf(seq, a.snap, a.cmd, io))

Call_send_msgf_cmd_only ==
    /\ Len(log) < MaxCalls
    /\ \E cmd \in CmdOnlyArgs, io \in IoChoices :
          Returns("send_msgf_cmd_only", MAGIC_MSGF, NoArg, cmd, MsgfSnapshot,
                  send_msgf_cmd_only(seq, cmd, io))

Call_send_imgf ==
    /\ Len(log) < MaxCalls
    /\ \E file \in {PngSmall, NoFile}, io \in IoChoices :
          Returns("send_imgf", MAGIC_IMGF, file, PyInt(0), MsgfSnapshot,
                  send_imgf(seq, file, io))

Call_send_imgf_bytes ==
    /\ Len(log) < MaxCalls
    /\ \E png \in {PngMax, PngTooLarge}, io \in IoChoices :
          Returns("send_imgf_bytes", MAGIC_IMGF, png, PyInt(0), MsgfSnapshot,
                  send_imgf_bytes(seq, png, io))

Call_send_imgf_r565_bytes ==
    /\ Len(log) < MaxCalls
    /\ \E frame \in {R565Small, R565TooLarge}, io \in IoChoices :
          Returns("send_imgf_r565_bytes", MAGIC_IMGF, frame, PyInt(0),
                  MsgfSnapshot, send_imgf_r565_bytes(seq, frame, io))

NoCall == [fn |-> "none"]

NoArgs == [mode |-> "none"]

NotRunning == [pc |-> "none"]

(***************************************************************************)
(* HostSender.__init__: self.seq = 1 on a freshly opened port.             *)
(***************************************************************************)
Init ==
    /\ seq = PyInt(1)
    /\ wire = <<>>
    /\ log = <<>>
    /\ call = NoCall
    /\ clock = 0
    /\ args = NoArgs
    /\ run = NotRunning

Next ==
    \/ Call_send_frame
    \/ Call_send_msgf
    \/ Call_send_msgf_cmd_only
    \/ Call_send_imgf
    \/ Call_send_imgf_bytes
    \/ Call_send_imgf_r565_bytes

Spec == Init /\ [][Next]_vars

(***************************************************************************)
(* Reading the wire: the fields of a 20-byte header at their offsets in    *)
(* the layout magic:u32 type:u8 flags:u8 reserved:u16 length:u32           *)
(* checksum:u32 sequence:u32, little-endian.                               *)
(***************************************************************************)
U32At(bs, off) == [hi |-> bs[off + 3] + 256 * bs[off + 4],
                   lo |-> bs[off + 1] + 256 * bs[off + 2]]

HdrMagic(bs) == SubSeq(bs, 1, 4)

HdrLength(bs) == U32At(bs, 8)

HdrSequence(bs) == U32At(bs, 16)

IsHeader(b) == Len(b.bytes) = 20 /\ b.tail = 0

Sent(i) == log[i].err = "none"

NumSent(i) == Cardinality({j \in 1..i : Sent(j)})

ImageOps == {"send_imgf", "send_imgf_bytes", "send_imgf_r565_bytes"}

MsgfOps == {"send_msgf", "send_msgf_cmd_only"}

Returned == Len(log') = Len(log) + 1

(***************************************************************************)
(* C1: on a fresh HostSender the n-th successfully sent frame carries      *)
(* header sequence n, whatever the mix of entry points, and self.seq is    *)
(* one more than the number of frames sent so far.                         *)
(***************************************************************************)
C1_SequenceCountsSentFrames ==
    /\ seq = PyInt(NumSent(Len(log)) + 1)
    /\ \A i \in 1..Len(log) :
          Sent(i) => /\ IsHeader(wire[log[i].at])
                     /\ HdrSequence(wire[log[i].at].bytes) = PyInt(NumSent(i))

C1_Witness ==
    /\ Len(log) = 3
    /\ \A i \in 1..3 : Sent(i) /\ HdrSequence(wire[log[i].at].bytes) = PyInt(i)
    /\ log[1].op = "send_msgf"
    /\ log[2].op \in ImageOps
    /\ log[3].op = "send_msgf"

(***************************************************************************)
(* C2: an image payload of more than MAX_PNG_SIZE bytes handed to the      *)
(* sender is rejected: nothing is written and self.seq does not advance.   *)
(***************************************************************************)
C2_OversizedImageRejected ==
    [][(/\ Returned
        /\ log'[Len(log')].op \in ImageOps
        /\ log'[Len(log')].payload # NoFile
        /\ BufLen(log'[Len(log')].payload) > MAX_PNG_SIZE)
       => (/\ log'[Len(log')].err # "none"
           /\ wire' = wire
           /\ seq' = seq)]_vars

(***************************************************************************)
(* C3: a send_frame whose header write or payload write fails still        *)
(* advances self.seq.                                                      *)
(***************************************************************************)
C3_FailedWriteAdvancesSeq ==
    [][(Returned /\ log'[Len(log')].err = "SerialException")
       => seq' = PyInc(seq)]_vars

(***************************************************************************)
(* C4: as long as no write has failed, the wire is the concatenation of    *)
(* the frames sent, in order: a 20-byte header, then the payload, and the  *)
(* header's length field is the length of the payload that follows it.     *)
(***************************************************************************)
PayloadArg(i) ==
    IF log[i].op = "send_msgf"
    THEN Buf(<<log[i].cmd.lo % 256>> \o MsgfSnapshot_pack(log[i].snap).val)
    ELSE IF log[i].op = "send_msgf_cmd_only"
    THEN Buf(<<log[i].cmd.lo % 256>>)
    ELSE log[i].payload

C4_WireIsFrames ==
    NumFails = 0 =>
        /\ Len(wire) = 2 * NumSent(Len(log))
        /\ \A i \in 1..Len(log) :
              Sent(i) => /\ log[i].at = 2 * NumSent(i) - 1
                         /\ IsHeader(wire[log[i].at])
                         /\ HdrMagic(wire[log[i].at].bytes) = log[i].magic4
                         /\ HdrLength(wire[log[i].at].bytes)
                               = PyInt(BufLen(wire[log[i].at + 1]))
                         /\ wire[log[i].at + 1] = PayloadArg(i)

C4_Witness ==
    /\ NumFails = 0
    /\ Len(log) = 3
    /\ \A i \in 1..3 : Sent(i)
    /\ Len(wire) = 6
    /\ \E i \in 1..3 : log[i].op \in ImageOps /\ BufLen(wire[2 * i]) = MAX_PNG_SIZE
    /\ \E i \in 1..3 : log[i].op = "send_msgf"
    /\ \E i \in 1..3 : HdrLength(wire[2 * i - 1].bytes) = PyInt(0)

(***************************************************************************)
(* C5 as stated: the payload of every MSGF frame sent by send_msgf or      *)
(* send_msgf_cmd_only is 25 bytes when its command byte is 0x00 and 1 byte *)
(* when its command byte is 0x01.                                          *)
(***************************************************************************)
C5_ShapeByCommandByte ==
    \A i \in 1..Len(log) :
        (log[i].op \in MsgfOps /\ Sent(i)) =>
            LET p == wire[log[i].at + 1] IN
            /\ p.bytes[1] = MSG_CMD_SNAPSHOT => BufLen(p) = 25
            /\ p.bytes[1] = MSG_CMD_REBOOT => BufLen(p) = 1

(***************************************************************************)
(* C5 amended: the payload shape is determined by the entry point:         *)
(* send_msgf sends cmd & 0xFF followed by the 26 bytes of the 11 snapshot  *)
(* fields, 27 bytes, also for cmd = 0x01; send_msgf_cmd_only sends the one *)
(* byte cmd & 0xFF.                                                        *)
(***************************************************************************)
C5_ShapeByEntryPoint ==
    \A i \in 1..Len(log) :
        (log[i].op \in MsgfOps /\ Sent(i)) =>
            LET p == wire[log[i].at + 1] IN
            /\ p.tail = 0
            /\ p.bytes[1] = log[i].cmd.lo % 256
            /\ log[i].op = "send_msgf" => Len(p.bytes) = 27
            /\ log[i].op = "send_msgf_cmd_only" => Len(p.bytes) = 1

C5_Witness ==
    /\ \E i \in 1..Len(log) :
          /\ log[i].op = "send_msgf" /\ Sent(i)
          /\ log[i].cmd = PyInt(MSG_CMD_REBOOT)
          /\ wire[log[i].at + 1].bytes[1] = MSG_CMD_REBOOT
          /\ BufLen(wire[log[i].at + 1]) = 27
    /\ \E i \in 1..Len(log) :
          /\ log[i].op = "send_msgf_cmd_only" /\ Sent(i)
          /\ BufLen(wire[log[i].at + 1]) = 1
    /\ \E i \in 1..Len(log) :
          /\ log[i].op = "send_msgf" /\ Sent(i)
          /\ log[i].cmd = PyInt(MSG_CMD_SNAPSHOT)
          /\ BufLen(wire[log[i].at + 1]) = 27

(***************************************************************************)
(* C9: send_frame with a magic that is not exactly 4 bytes raises          *)
(* ValueError before anything is written and leaves self.seq alone.        *)
(***************************************************************************)
C9_BadMagicRejected ==
    [][(/\ Returned
        /\ log'[Len(log')].op = "send_frame"
        /\ Len(log'[Len(log')].magic4) # 4)
       => (/\ log'[Len(log')].err = "ValueError"
           /\ wire' = wire
           /\ seq' = seq)]_vars

C9_Witness ==
    /\ Len(log) = 3
    /\ Sent(1)
    /\ log[2].op = "send_frame" /\ Len(log[2].magic4) = 3
    /\ log[2].err = "ValueError" /\ log[2].nw = 0
    /\ log[3].op = "send_frame" /\ Len(log[3].magic4) = 5
    /\ log[3].err = "ValueError" /\ log[3].nw = 0
    /\ Len(wire) = 2
    /\ seq = PyInt(2)

(***************************************************************************)
(* The same sender late in its life: self.seq has reached 2^32 - 2 or      *)
(* 2^32 - 1 (Python integers do not overflow), and wire and log start at   *)
(* that moment.                                                            *)
(***************************************************************************)
U32Max == [hi |-> 65535, lo |-> 65535]

InitWrap ==
    /\ seq \in {[hi |-> 65535, lo |-> 65534], U32Max}
    /\ wire = <<>>
    /\ log = <<>>
    /\ call = NoCall
    /\ clock = 0
    /\ args = NoArgs
    /\ run = NotRunning

SpecWrap == InitWrap /\ [][Next]_vars

(***************************************************************************)
(* C8: the sequence on the wire is self.seq mod 2^32: each sent frame      *)
(* carries the sequence of the previous sent frame plus one, 2^32 - 1 is   *)
(* followed by 0, and no call raises struct.error because of the counter   *)
(* (only a snapshot that MsgfSnapshot.pack rejects does).                  *)
(***************************************************************************)
C8_SequenceWrapsAt2Pow32 ==
    /\ \A i \in 1..Len(log) :
          log[i].err = "struct.error" =>
              /\ log[i].op = "send_msgf"
              /\ MsgfSnapshot_pack(log[i].snap).err = "struct.error"
    /\ \A i, j \in 1..Len(log) :
          (Sent(i) /\ Sent(j) /\ NumSent(j) = NumSent(i) + 1) =>
              LET a == HdrSequence(wire[log[i].at].bytes)
                  b == HdrSequence(wire[log[j].at].bytes)
              IN  /\ a.hi \in 0..65535 /\ b.hi \in 0..65535
                  /\ b = IF a = U32Max THEN PyInt(0) ELSE PyInc(a)

C8_Witness ==
    \E i, j \in 1..Len(log) :
        /\ Sent(i) /\ Sent(j) /\ j = i + 1
        /\ HdrSequence(wire[log[i].at].bytes) = U32Max
        /\ HdrSequence(wire[log[j].at].bytes) = PyInt(0)
        /\ seq = [hi |-> 65536, lo |-> 1]

(***************************************************************************)
(* The codecs on their own: call records the last codec function applied,  *)
(* its arguments and what it returned or raised.                           *)
(***************************************************************************)
IntSamples ==
    {[hi |-> h, lo |-> l] :
        h \in {-32769, -32768, -1, 0, 1, 32767, 32768, 65535, 65536},
        l \in {0, 1440, 40000, 65535}}

SnapSamples ==
    {[SnapOnce EXCEPT ![SnapFields[k]] = v] : k \in 1..Len(SnapFields),
                                              v \in IntSamples}

HeaderSamples ==
    {[magic4 |-> m, payload_len |-> [hi |-> lh, lo |-> ll],
      seq |-> [hi |-> sh, lo |-> sl], typ |-> t.typ, flags |-> t.flags,
      crc32 |-> t.crc32] :
        m \in {MAGIC_MSGF, MAGIC_IMGF, <<0, 0, 0, 0>>, <<255, 1, 2, 128>>,
               <<77, 83>>},
        lh \in {0, 3, 65535, 65536}, ll \in {0, 27, 65535},
        sh \in {0, 1, 65535, 65536}, sl \in {0, 1, 65535},
        t \in {[typ |-> PyInt(0), flags |-> PyInt(0), crc32 |-> PyInt(0)],
               [typ |-> PyInt(258), flags |-> PyInt(255),
                crc32 |-> [hi |-> 65537, lo |-> 7]]}}

Call_pack ==
    /\ \E snap \in SnapSamples :
          call' = [fn |-> "pack", arg |-> snap, ret |-> MsgfSnapshot_pack(snap)]
    /\ UNCHANGED <<seq, wire, log, clock, args, run>>

Call_pack_header ==
    /\ \E a \in HeaderSamples :
          call' = [fn |-> "pack_header", arg |-> a,
                   ret |-> pack_header(a.magic4, a.payload_len, a.seq, a.typ,
                                       a.flags, a.crc32)]
    /\ UNCHANGED <<seq, wire, log, clock, args, run>>

(***************************************************************************)
(* Time strings: H and M written in decimal (plain, zero-padded to two     *)
(* digits, or with blanks around the string), and strings that are not two *)
(* colon-separated integers.                                               *)
(***************************************************************************)
RECURSIVE NatStr(_)
NatStr(n) == IF n < 10 THEN <<Digits[n + 1]>>
             ELSE NatStr(n \div 10) \o <<Digits[(n % 10) + 1]>>

IntStr(n, style) ==
    IF n < 0 THEN <<"-">> \o NatStr(0 - n)
    ELSE IF style = "02d" /\ n < 10 THEN <<"0">> \o NatStr(n)
    ELSE NatStr(n)

FormatHM(H, M, style) ==
    LET t == IntStr(H, style) \o <<":">> \o IntStr(M, style) IN
    IF style = "blanks" THEN <<" ">> \o t \o <<" ", " ">> ELSE t

HourSamples == {-1, 0, 1, 9, 10, 12, 23, 24, 25, 99}

MinuteSamples == {-1, 0, 1, 9, 34, 59, 60, 61, 99}

TimeStyles == {"d", "02d", "blanks"}

MalformedTimes ==
    {<<>>, <<"1", "2">>, <<"1", "2", ":">>, <<":", "3", "0">>,
     <<"1", ":", "2", ":", "3">>, <<":", ":">>, <<"a", "b", ":", "c", "d">>,
     <<"1", "2", ":", "3", "x">>, <<"1", "2", ".", "5", ":", "0", "0">>,
     <<"1", "2", ";", "3", "0">>, <<"1", " ", "2", ":", "3", "0">>,
     <<"1", "2", ":", "3", "0", ":">>, <<"1", "2", ":", "_", "3">>}

HhmmSamples ==
    {FormatHM(H, M, st) : H \in HourSamples, M \in MinuteSamples,
                          st \in TimeStyles} \cup MalformedTimes

Call_hhmm_to_minutes ==
    /\ \E str \in HhmmSamples :
          call' = [fn |-> "hhmm_to_minutes", arg |-> str,
                   ret |-> hhmm_to_minutes(str)]
    /\ UNCHANGED <<seq, wire, log, clock, args, run>>

NextCodec == Call_pack \/ Call_pack_header \/ Call_hhmm_to_minutes

SpecCodec == Init /\ [][NextCodec]_vars

IsU32(w) == w.hi >= 0 /\ w.hi <= 65535

(***************************************************************************)
(* C6: MsgfSnapshot.pack never raises on its scalar fields: every integer  *)
(* value of every field is encoded reduced modulo 2^width.                 *)
(***************************************************************************)
SnapValues(s) == [k \in 1..Len(SnapFields) |-> s[SnapFields[k]]]

C6_PackNeverFails ==
    call.fn = "pack" =>
        call.ret = [err |-> "none", val |-> EncAll(SnapFmt, SnapValues(call.arg))]

(***************************************************************************)
(* C7 as stated: packing a snapshot with curr_time_min = 1440 gives the    *)
(* bytes of the same snapshot with curr_time_min = 0.                      *)
(***************************************************************************)
C7_Wrap1440IsZero ==
    (call.fn = "pack" /\ call.arg.curr_time_min = PyInt(1440)) =>
        call.ret = MsgfSnapshot_pack([call.arg EXCEPT !.curr_time_min = PyInt(0)])

(***************************************************************************)
(* C7 amended: curr_time_min wraps at 65536, not at 1440: packing          *)
(* curr_time_min = 65536 succeeds with the bytes of curr_time_min = 0,     *)
(* and 1440 is packed as 1440 (bytes A0 05 at offset 18).                  *)
(***************************************************************************)
C7_Wrap65536IsZero ==
    /\ (call.fn = "pack" /\ call.arg.curr_time_min = PyInt(65536)) =>
          /\ call.ret.err = "none"
          /\ call.ret = MsgfSnapshot_pack([call.arg EXCEPT
                                              !.curr_time_min = PyInt(0)])
    /\ (call.fn = "pack" /\ call.arg.curr_time_min = PyInt(1440)) =>
          /\ call.ret.err = "none"
          /\ SubSeq(call.ret.val, 19, 20) = <<160, 5>>

C7_Witness ==
    /\ call.fn = "pack"
    /\ call.arg.curr_time_min = PyInt(65536)
    /\ call.ret.err = "none"
    /\ SubSeq(call.ret.val, 19, 20) = <<0, 0>>

(***************************************************************************)
(* C10: for a 4-byte magic, a length and a sequence in 0..2^32-1, reading  *)
(* the 20 bytes of pack_header back by the little-endian layout gives the  *)
(* same magic (first byte at offset 0), length and sequence, so no other   *)
(* (magic, length, sequence) gives the same header.                        *)
(***************************************************************************)
ValidHeaderArg(a) ==
    Len(a.magic4) = 4 /\ IsU32(a.payload_len) /\ IsU32(a.seq)

C10_HeaderRoundTrip ==
    (call.fn = "pack_header" /\ ValidHeaderArg(call.arg)) =>
        /\ call.ret.err = "none"
        /\ Len(call.ret.val) = 20
        /\ HdrMagic(call.ret.val) = call.arg.magic4
        /\ HdrLength(call.ret.val) = call.arg.payload_len
        /\ HdrSequence(call.ret.val) = call.arg.seq
        /\ \A b \in HeaderSamples :
              (/\ ValidHeaderArg(b)
               /\ b.typ = call.arg.typ /\ b.flags = call.arg.flags
               /\ b.crc32 = call.arg.crc32
               /\ pack_header(b.magic4, b.payload_len, b.seq, b.typ, b.flags,
                              b.crc32) = call.ret)
              => b = call.arg

C10_Witness ==
    /\ call.fn = "pack_header"
    /\ call.arg.magic4 = MAGIC_IMGF
    /\ call.arg.payload_len = U32Max
    /\ call.arg.seq = U32Max
    /\ call.ret.err = "none"
    /\ SubSeq(call.ret.val, 1, 4) = MAGIC_IMGF
    /\ SubSeq(call.ret.val, 9, 12) = <<255, 255, 255, 255>>

(***************************************************************************)
(* C11: on the text of two integers H and M separated by a colon,          *)
(* hhmm_to_minutes returns 60*H + M, a value in 0..1439, exactly when      *)
(* 0 <= H <= 23 and 0 <= M <= 59, and raises ValueError otherwise and on   *)
(* every string that is not two colon-separated integers.                  *)
(***************************************************************************)
C11_HhmmToMinutes ==
    call.fn = "hhmm_to_minutes" =>
        /\ \A H \in HourSamples, M \in MinuteSamples, st \in TimeStyles :
              call.arg = FormatHM(H, M, st) =>
                  call.ret = IF 0 <= H /\ H <= 23 /\ 0 <= M /\ M <= 59
                             THEN [err |-> "none", val |-> 60 * H + M]
                             ELSE [err |-> "ValueError", val |-> 0]
        /\ call.arg \in MalformedTimes => call.ret.err = "ValueError"
        /\ call.ret.err = "none" => call.ret.val \in 0..1439

C11_Witness ==
    /\ call.fn = "hhmm_to_minutes"
    /\ call.arg = <<"2", "3", ":", "5", "9">>
    /\ call.ret = [err |-> "none", val |-> 1439]

(***************************************************************************)
(* C12: every frame sent through send_msgf, send_msgf_cmd_only, send_imgf, *)
(* send_imgf_bytes or send_imgf_r565_bytes has magic MSGF (telemetry) or   *)
(* IMGF (image) and type, flags, reserved and checksum all zero.           *)
(***************************************************************************)
HdrType(bs) == bs[5]

HdrFlags(bs) == bs[6]

HdrReserved(bs) == SubSeq(bs, 7, 8)

HdrChecksum(bs) == U32At(bs, 12)

C12_ConvenienceHeadersZero ==
    \A i \in 1..Len(log) :
        (Sent(i) /\ log[i].op \in MsgfOps \cup ImageOps) =>
            LET h == wire[log[i].at].bytes IN
            /\ HdrMagic(h) = IF log[i].op \in MsgfOps THEN MAGIC_MSGF
                                                     ELSE MAGIC_IMGF
            /\ HdrType(h) = 0
            /\ HdrFlags(h) = 0
            /\ HdrReserved(h) = <<0, 0>>
            /\ HdrChecksum(h) = PyInt(0)

C12_Witness ==
    /\ Len(log) = 3
    /\ \A i \in 1..3 : Sent(i)
    /\ log[1].op = "send_frame" /\ HdrType(wire[1].bytes) = 2
    /\ HdrFlags(wire[1].bytes) = 3
    /\ log[2].op \in MsgfOps /\ HdrType(wire[3].bytes) = 0
    /\ HdrMagic(wire[3].bytes) = MAGIC_MSGF
    /\ log[3].op \in ImageOps /\ HdrChecksum(wire[5].bytes) = PyInt(0)
    /\ HdrMagic(wire[5].bytes) = MAGIC_IMGF
    /\ BufLen(wire[6]) > 0

(***************************************************************************)
(* main, run_once and run_demo.  clock is what time.time() returns, in     *)
(* units of 1/48 s (so that --hz 24 is a period of 2); args are the parsed *)
(* command-line arguments; run holds the position of the program (pc), the *)
(* exception that is propagating (exc), the locals of run_demo, the number *)
(* of calls of TrackImageFetcher.fetch_next (count) and of ser.close(),    *)
(* and, per loop iteration, a record of what the iteration read and did.   *)
(*                                                                         *)
(* args.png is "none" (no --png), "ok" (a readable file) or "missing" (a   *)
(* path that open() rejects).                                              *)
(***************************************************************************)
Inf == [inf |-> TRUE, t |-> 0]

At(t) == [inf |-> FALSE, t |-> t]

Reached(now, deadline) == ~deadline.inf /\ now >= deadline.t

Period(hz) == 48 \div hz

TimeOk == <<"1", "2", ":", "3", "4">>

TimeBad == <<"2", "4", ":", "0", "0">>

DemoArgs(png, png_every, track, img_mode, hz) ==
    [mode |-> "demo", hz |-> hz, png |-> png, png_every |-> png_every,
     track |-> track, track_every |-> 2, img_mode |-> img_mode,
     time |-> TimeOk, reboot_cmd |-> FALSE]

OnceArgs(png, img_mode, time, reboot_cmd) ==
    [mode |-> "once", hz |-> 24, png |-> png, png_every |-> 1392,
     track |-> FALSE, track_every |-> 1200, img_mode |-> img_mode,
     time |-> time, reboot_cmd |-> reboot_cmd]

MainArgs ==
    {DemoArgs("none", 3, FALSE, "png", 24),
     DemoArgs("ok", 3, FALSE, "png", 24),
     DemoArgs("ok", 0, FALSE, "png", 24),
     DemoArgs("none", 3, TRUE, "png", 24),
     DemoArgs("ok", 3, TRUE, "png", 24),
     DemoArgs("ok", 3, TRUE, "r565", 24),
     DemoArgs("missing", 3, FALSE, "png", 24),
     DemoArgs("none", 3, FALSE, "png", 0),
     OnceArgs("none", "png", TimeOk, FALSE),
     OnceArgs("ok", "png", TimeOk, TRUE),
     OnceArgs("ok", "r565", TimeOk, FALSE),
     OnceArgs("missing", "png", TimeOk, TRUE),
     OnceArgs("none", "png", TimeBad, TRUE)}

InitMain ==
    /\ seq = PyInt(1)
    /\ wire = <<>>
    /\ log = <<>>
    /\ call = NoCall
    /\ clock = 0
    /\ args \in MainArgs
    /\ run = [pc |-> "try", exc |-> "none", close_calls |-> 0,
              close_exc |-> "none", ser_close |-> "none", tick |-> 0, now |-> 0, last |-> 0,
              start |-> 0, next_png |-> Inf, next_fetch |-> Inf,
              snap |-> MsgfSnapshot, count |-> 0, ticks |-> <<>>]

Raised(r, e) == [r EXCEPT !.pc = "finally", !.exc = e]

After_swallowed(r, err, pc) == [r EXCEPT !.pc = pc]

After(r, err, pc) == IF err # "none" THEN Raised(r, err) ELSE [r EXCEPT !.pc = pc]

Noting(r, src) ==
    [r EXCEPT !.ticks[Len(r.ticks)].calls =
                  Append(@, [src |-> src, log |-> Len(log) + 1])]

Checking(r, src) == [r EXCEPT !.ticks[Len(r.ticks)].checked = Append(@, src)]

(***************************************************************************)
(* png_to_r565_frame on the images used here, which decode to one red      *)
(* pixel: "R565", width 1, height 1, the sample 0xF800 little-endian.      *)
(***************************************************************************)
png_to_r565_frame(png) == R565Small

ImageFrame(png) ==
    IF args.img_mode = "r565"
    THEN [op |-> "send_imgf_r565_bytes", payload |-> png_to_r565_frame(png)]
    ELSE [op |-> "send_imgf_bytes", payload |-> png]

send_image(self_seq, f, io) ==
    IF f.op = "send_imgf_r565_bytes"
    THEN send_imgf_r565_bytes(self_seq, f.payload, io)
    ELSE send_imgf_bytes(self_seq, f.payload, io)

(***************************************************************************)
(* TrackImageFetcher.fetch_next on the outcome of the HTTP request: the    *)
(* request or raise_for_status raises, or the body is returned unless it   *)
(* is larger than MAX_PNG_SIZE.                                            *)
(***************************************************************************)
TrackPng == [bytes |-> <<137, 80, 78, 71, 13>>, tail |-> 4000]

Responses == {[err |-> "none", content |-> TrackPng],
              [err |-> "none", content |-> PngTooLarge],
              [err |-> "RequestException", content |-> NoArg]}

fetch_next(resp) ==
    IF resp.err # "none" THEN [err |-> resp.err, val |-> NoArg]
    ELSE IF BufLen(resp.content) > MAX_PNG_SIZE
    THEN [err |-> "ValueError", val |-> NoArg]
    ELSE [err |-> "none", val |-> resp.content]

(***************************************************************************)
(* run_demo, entry (lines 222-241): the period, the two deadlines and      *)
(* last.  1.0 / hz raises ZeroDivisionError for --hz 0.                    *)
(***************************************************************************)
FirstPng_unchecked(t, png, png_every) ==
    IF png # "none" THEN At(t + png_every) ELSE Inf

FirstPng(t, png, png_every) ==
    IF png # "none" /\ png_every > 0 THEN At(t + png_every) ELSE Inf

FirstFetch(t, track, track_every) ==
    IF track THEN At(t + track_every) ELSE Inf

Demo_enter ==
    /\ run.pc = "try"
    /\ args.mode = "demo"
    /\ IF args.hz = 0
       THEN /\ run' = Raised(run, "ZeroDivisionError")
            /\ UNCHANGED clock
       ELSE \E d \in {0, 1} :
               /\ clock' = clock + d
               /\ run' = [run EXCEPT
                             !.pc = "tick",
                             !.start = clock,
                             !.next_png = FirstPng(clock, args.png, args.png_every),
                             !.next_fetch = FirstFetch(clock, args.track,
                                                       args.track_every),
                             !.last = clock + d]
    /\ UNCHANGED <<seq, wire, log, call, args>>

(***************************************************************************)
(* The order of the statements of one iteration of the loop.               *)
(***************************************************************************)
DemoOrder_image_first(pc) ==
    CASE pc = "tick" -> "png"
      [] pc = "png" -> "msgf"
      [] pc = "msgf" -> "track"
      [] pc = "track" -> "sleep"
      [] pc = "sleep" -> "tick"

DemoOrder(pc) ==
    CASE pc = "tick" -> "msgf"
      [] pc = "msgf" -> "png"
      [] pc = "png" -> "track"
      [] pc = "track" -> "sleep"
      [] pc = "sleep" -> "tick"

(***************************************************************************)
(* Top of the loop (lines 244-292): now = time.time() and the snapshot of  *)
(* the demo data.  odo and trip grow by the speed on every iteration, so   *)
(* the snapshot is either one that packs or, late in a long run, one whose *)
(* odo_m has passed 2^31 - 1.                                              *)
(***************************************************************************)
DemoSnaps == {SnapOnce, [SnapOnce EXCEPT !.odo_m = [hi |-> 32768, lo |-> 0]]}

Demo_tick ==
    /\ run.pc = "tick"
    /\ run.tick < MaxTicks
    /\ \E snap \in DemoSnaps :
          run' = [run EXCEPT
                     !.pc = DemoOrder("tick"),
                     !.tick = @ + 1,
                     !.now = clock,
                     !.snap = snap,
                     !.ticks = Append(@, [now |-> clock,
                                          last |-> run.last,
                                          next_png |-> run.next_png,
                                          next_fetch |-> run.next_fetch,
                                          calls |-> <<>>,
                                          checked |-> <<>>,
                                          end |-> -1, sleep_s |-> 0,
                                          slept |-> FALSE, woke |-> -1])]
    /\ UNCHANGED <<seq, wire, log, call, args, clock>>

(***************************************************************************)
(* sender.send_msgf(snap, cmd=MSG_CMD_SNAPSHOT) (line 293).                *)
(***************************************************************************)
Demo_send_msgf ==
    /\ run.pc = "msgf"
    /\ \E io \in {IoOk} \cup IoFailures, d \in {0, 1} :
          LET r == send_msgf(seq, run.snap, PyInt(MSG_CMD_SNAPSHOT), io) IN
          /\ Sends("send_msgf", MAGIC_MSGF, NoArg, PyInt(MSG_CMD_SNAPSHOT),
                   run.snap, r)
          /\ clock' = clock + d
          /\ run' = After(Noting(run, "msgf"), r.err, DemoOrder("msgf"))
    /\ UNCHANGED <<call, args>>

(***************************************************************************)
(* The local image (lines 296-308).                                        *)
(***************************************************************************)
Reschedule_from_deadline(now, deadline, every) == At(deadline.t + every)

Reschedule(now, deadline, every) == At(now + every)

LocalSent_both(r) ==
    [r EXCEPT !.next_png = Reschedule(r.now, r.next_png, args.png_every),
              !.next_fetch = Reschedule(r.now, r.next_png, args.png_every)]

LocalSent(r) ==
    [r EXCEPT !.next_png = Reschedule(r.now, r.next_png, args.png_every)]

Demo_local_png ==
    /\ run.pc = "png"
    /\ IF Reached(run.now, run.next_png) /\ args.png # "none"
       THEN IF args.png = "missing"
            THEN /\ run' = Raised(Checking(run, "png"), "OSError")
                 /\ UNCHANGED <<seq, wire, log, clock>>
            ELSE \E io \in {IoOk} \cup IoFailures, d \in {0, 2} :
                    LET f == ImageFrame(PngSmall)
                        r == send_image(seq, f, io)
                        noted == Noting(Checking(run, "png"), "png")
                    IN  /\ Sends(f.op, MAGIC_IMGF, f.payload,
                                 PyInt(0), MsgfSnapshot, r)
                        /\ clock' = clock + d
                        /\ run' = After(IF r.err = "none"
                                        THEN LocalSent(noted)
                                        ELSE noted,
                                        r.err, DemoOrder("png"))
       ELSE /\ run' = [Checking(run, "png") EXCEPT !.pc = DemoOrder("png")]
            /\ UNCHANGED <<seq, wire, log, clock>>
    /\ UNCHANGED <<call, args>>

(***************************************************************************)
(* The remote track image (lines 311-322).                                 *)
(***************************************************************************)
Demo_track ==
    /\ run.pc = "track"
    /\ IF args.track /\ Reached(run.now, run.next_fetch)
       THEN \E resp \in Responses, io \in {IoOk} \cup IoFailures, d \in {1, 3} :
               LET png == fetch_next(resp)
                   called == [Checking(run, "track") EXCEPT !.count = @ + 1]
               IN  /\ clock' = clock + d
                   /\ IF png.err # "none"
                      THEN /\ run' = Raised(called, png.err)
                           /\ UNCHANGED <<seq, wire, log>>
                      ELSE LET f == ImageFrame(png.val)
                               r == send_image(seq, f, io)
                               noted == Noting(called, "track")
                           IN  /\ Sends(f.op, MAGIC_IMGF, f.payload, PyInt(0),
                                        MsgfSnapshot, r)
                               /\ run' = After(
                                      IF r.err = "none"
                                      THEN [noted EXCEPT !.next_fetch =
                                               Reschedule(run.now, run.next_fetch,
                                                          args.track_every)]
                                      ELSE noted,
                                      r.err, DemoOrder("track"))
       ELSE /\ run' = [Checking(run, "track") EXCEPT !.pc = DemoOrder("track")]
            /\ UNCHANGED <<seq, wire, log, clock>>
    /\ UNCHANGED <<call, args>>

(***************************************************************************)
(* The fixed-rate sleep (lines 326-330): time.sleep returns after at least *)
(* the requested time.                                                     *)
(***************************************************************************)
sleep_s_full_period(period, elapsed) == period

sleep_s(period, elapsed) == period - elapsed

Demo_sleep ==
    /\ run.pc = "sleep"
    /\ LET elapsed == clock - run.last
           s == sleep_s(Period(args.hz), elapsed)
       IN  \E over \in {0, 1} :
              /\ clock' = IF s > 0 THEN clock + s + over ELSE clock
              /\ run' = [run EXCEPT
                            !.pc = DemoOrder("sleep"),
                            !.last = clock',
                            !.ticks[Len(run.ticks)] =
                                [@ EXCEPT !.end = clock, !.sleep_s = s,
                                          !.slept = s > 0, !.woke = clock']]
    /\ UNCHANGED <<seq, wire, log, call, args>>

(***************************************************************************)
(* run_once (lines 336-363).                                               *)
(***************************************************************************)
Once_msgf ==
    /\ run.pc = "try"
    /\ args.mode = "once"
    /\ LET t == hhmm_to_minutes(args.time) IN
       IF t.err # "none"
       THEN /\ run' = Raised(run, t.err)
            /\ UNCHANGED <<seq, wire, log>>
       ELSE \E io \in {IoOk} \cup IoFailures :
               LET snap == [SnapOnce EXCEPT !.curr_time_min = PyInt(t.val)]
                   r == send_msgf(seq, snap, PyInt(MSG_CMD_SNAPSHOT), io)
               IN  /\ Sends("send_msgf", MAGIC_MSGF, NoArg,
                            PyInt(MSG_CMD_SNAPSHOT), snap, r)
                   /\ run' = After(run, r.err, "reboot")
    /\ UNCHANGED <<call, args, clock>>

Once_reboot ==
    /\ run.pc = "reboot"
    /\ IF args.reboot_cmd
       THEN \E io \in {IoOk} \cup IoFailures :
               LET r == send_msgf_cmd_only(seq, PyInt(MSG_CMD_REBOOT), io) IN
               /\ Sends("send_msgf_cmd_only", MAGIC_MSGF, NoArg,
                        PyInt(MSG_CMD_REBOOT), MsgfSnapshot, r)
               /\ run' = After(run, r.err, "once_png")
       ELSE /\ run' = [run EXCEPT !.pc = "once_png"]
            /\ UNCHANGED <<seq, wire, log>>
    /\ UNCHANGED <<call, args, clock>>

Once_png ==
    /\ run.pc = "once_png"
    /\ IF args.png = "none"
       THEN /\ run' = [run EXCEPT !.pc = "finally"]
            /\ UNCHANGED <<seq, wire, log>>
       ELSE IF args.png = "missing"
       THEN /\ run' = Raised(run, "OSError")
            /\ UNCHANGED <<seq, wire, log>>
       ELSE \E io \in {IoOk} \cup IoFailures :
               LET f == ImageFrame(PngSmall)
                   r == send_image(seq, f, io)
               IN  /\ Sends(f.op, MAGIC_IMGF, f.payload, PyInt(0),
                            MsgfSnapshot, r)
                   /\ run' = After(run, r.err, "finally")
    /\ UNCHANGED <<call, args, clock>>

(***************************************************************************)
(* main (lines 477-497): whatever leaves the try block, normally or by an  *)
(* exception (KeyboardInterrupt included), runs sender.close(), and        *)
(* HostSender.close swallows any Exception of ser.close().                 *)
(***************************************************************************)
Main_interrupt ==
    /\ run.pc \in {"tick", "msgf", "png", "track", "sleep", "reboot", "once_png"}
    /\ run' = Raised(run, "KeyboardInterrupt")
    /\ UNCHANGED <<seq, wire, log, call, args, clock>>

HostSender_close_unguarded(ser_close) ==
    IF ser_close = "raises" THEN "SerialException" ELSE "none"

HostSender_close(ser_close) == "none"

Main_close ==
    /\ run.pc = "finally"
    /\ \E ser_close \in {"ok", "raises"} :
          run' = [run EXCEPT !.pc = "exited",
                             !.close_calls = @ + 1,
                             !.ser_close = ser_close,
                             !.close_exc = HostSender_close(ser_close)]
    /\ UNCHANGED <<seq, wire, log, call, args, clock>>

NextMain ==
    \/ Demo_enter
    \/ Demo_tick
    \/ Demo_send_msgf
    \/ Demo_local_png
    \/ Demo_track
    \/ Demo_sleep
    \/ Once_msgf
    \/ Once_reboot
    \/ Once_png
    \/ Main_interrupt
    \/ Main_close

SpecMain == InitMain /\ [][NextMain]_vars

(***************************************************************************)
(* Reading the per-iteration records of run_demo.                          *)
(***************************************************************************)
Ticks == 1..Len(run.ticks)

Srcs(k) == [i \in 1..Len(run.ticks[k].calls) |-> run.ticks[k].calls[i].src]

Called(k, src) == \E i \in 1..Len(run.ticks[k].calls) :
                      run.ticks[k].calls[i].src = src

SentBy(k, src) == \E i \in 1..Len(run.ticks[k].calls) :
                      /\ run.ticks[k].calls[i].src = src
                      /\ Sent(run.ticks[k].calls[i].log)

Checked(k, src) == \E i \in 1..Len(run.ticks[k].checked) :
                       run.ticks[k].checked[i] = src

Slept(k) == run.ticks[k].end # -1

Processing(k) == run.ticks[k].end - run.ticks[k].last

InDemo == args.mode = "demo"

(***************************************************************************)
(* C13: once the sender exists, every way out of main's try block, the     *)
(* normal return of run_once and any exception out of run_demo or          *)
(* run_once, ends with exactly one sender.close(), made after the run and  *)
(* not before, and close raises nothing even when ser.close() does.        *)
(***************************************************************************)
C13_ClosedOnEveryExit ==
    /\ run.pc = "exited" => /\ run.close_calls = 1
                            /\ run.close_exc = "none"
                            /\ run.ser_close \in {"ok", "raises"}
    /\ run.pc # "exited" => run.close_calls = 0 /\ run.ser_close = "none"
    /\ run.exc # "none" => run.pc \in {"finally", "exited"}

C13_Witness ==
    /\ run.pc = "exited"
    /\ run.exc = "SerialException"
    /\ run.ser_close = "raises"
    /\ run.close_exc = "none"
    /\ run.close_calls = 1
    /\ InDemo
    /\ Len(run.ticks) = 2

(***************************************************************************)
(* C14: in run_demo every iteration calls send_msgf once, before any image *)
(* of that iteration, then at most one local image and at most one remote  *)
(* image in that order; an iteration that reaches its sleep has sent       *)
(* exactly one MSGF frame, however slow the iterations before it were, and *)
(* nothing is sent outside the iterations.                                 *)
(***************************************************************************)
TickShapes == {<<>>, <<"msgf">>, <<"msgf", "png">>, <<"msgf", "track">>,
               <<"msgf", "png", "track">>}

C14_OneTelemetryPerTick ==
    InDemo =>
        /\ \A k \in Ticks :
              /\ Srcs(k) \in TickShapes
              /\ \A i \in 1..Len(run.ticks[k].calls) :
                    LET c == run.ticks[k].calls[i]
                        h == wire[log[c.log].at].bytes
                    IN  /\ c.src = "msgf" <=> log[c.log].op = "send_msgf"
                        /\ c.src # "msgf" <=> log[c.log].op \in ImageOps
                        /\ Sent(c.log) =>
                              HdrMagic(h) = IF c.src = "msgf" THEN MAGIC_MSGF
                                                              ELSE MAGIC_IMGF
              /\ (Slept(k) \/ k < Len(run.ticks)) => SentBy(k, "msgf")
        /\ Cardinality({i \in 1..Len(log) : log[i].op = "send_msgf"})
              = Cardinality({k \in Ticks : Called(k, "msgf")})
        /\ Len(log) <= 3 * Len(run.ticks)
        /\ \A i \in 1..Len(log) :
              \E k \in Ticks, j \in 1..3 :
                  j <= Len(run.ticks[k].calls) /\ run.ticks[k].calls[j].log = i

C14_Witness ==
    /\ InDemo
    /\ Len(run.ticks) = 3
    /\ Slept(3)
    /\ ~run.ticks[2].slept /\ Processing(2) > Period(args.hz)
    /\ Srcs(2) = <<"msgf", "png", "track">>
    /\ Cardinality({i \in 1..Len(Srcs(3)) : Srcs(3)[i] = "msgf"}) = 1
    /\ \A i \in 1..Len(log) : Sent(i)

(***************************************************************************)
(* C15: with a local image and png_every > 0, an iteration that reaches    *)
(* the check sends the local image exactly when its now is at or past the  *)
(* deadline; the deadline is start + png_every at first and now +          *)
(* png_every after a send.  So nothing is sent before start + png_every    *)
(* and two consecutive sends are at least png_every apart in now.          *)
(***************************************************************************)
LocalConfigured == InDemo /\ args.png = "ok" /\ args.png_every > 0

C15_LocalDeadline ==
    LocalConfigured =>
        /\ \A k \in Ticks :
              LET t == run.ticks[k] IN
              /\ ~t.next_png.inf
              /\ Checked(k, "png") => (Called(k, "png") <=> t.now >= t.next_png.t)
              /\ Called(k, "png") => Checked(k, "png")
              /\ t.next_png =
                    IF k = 1 THEN At(run.start + args.png_every)
                    ELSE IF SentBy(k - 1, "png")
                    THEN At(run.ticks[k - 1].now + args.png_every)
                    ELSE run.ticks[k - 1].next_png
              /\ Called(k, "png") => t.now >= run.start + args.png_every
        /\ \A j, k \in Ticks :
              (j < k /\ Called(j, "png") /\ Called(k, "png"))
                  => run.ticks[k].now - run.ticks[j].now >= args.png_every

C15_Witness ==
    /\ LocalConfigured
    /\ Len(run.ticks) = 3
    /\ ~Called(1, "png") /\ Checked(1, "png")
    /\ SentBy(2, "png") /\ run.ticks[2].now > run.ticks[2].next_png.t
    /\ SentBy(3, "png")
    /\ run.ticks[3].next_png = At(run.ticks[2].now + args.png_every)

(***************************************************************************)
(* C16: an image that is not configured is never due: without --png, or    *)
(* with png_every <= 0, no local image is ever sent; without a fetcher no  *)
(* remote image is sent and fetch_next is never called; with neither, the  *)
(* loop sends MSGF frames only.                                            *)
(***************************************************************************)
C16_NeverDueWhenNotConfigured ==
    InDemo =>
        /\ (args.png = "none" \/ args.png_every <= 0) =>
              /\ run.next_png.inf
              /\ \A k \in Ticks : ~Called(k, "png")
        /\ ~args.track =>
              /\ run.next_fetch.inf
              /\ run.count = 0
              /\ \A k \in Ticks : ~Called(k, "track")
        /\ ((args.png = "none" \/ args.png_every <= 0) /\ ~args.track) =>
              \A i \in 1..Len(log) :
                  /\ log[i].op = "send_msgf"
                  /\ Sent(i) => HdrMagic(wire[log[i].at].bytes) = MAGIC_MSGF

C16_Witness ==
    /\ InDemo
    /\ args.png = "ok" /\ args.png_every = 0 /\ ~args.track
    /\ Len(run.ticks) = 3
    /\ Slept(3)
    /\ run.ticks[3].now >= 4
    /\ Len(log) = 3
    /\ \A k \in Ticks : Checked(k, "png") /\ Checked(k, "track")

(***************************************************************************)
(* C17: the two deadlines are independent: the local-image step never      *)
(* changes next_fetch, the remote step never changes next_png, and the     *)
(* telemetry step changes neither.                                         *)
(***************************************************************************)
C17_DeadlinesIndependent ==
    [][InDemo =>
         /\ run.pc = "png" => run'.next_fetch = run.next_fetch
         /\ run.pc = "track" => run'.next_png = run.next_png
         /\ run.pc = "msgf" => /\ run'.next_png = run.next_png
                               /\ run'.next_fetch = run.next_fetch]_vars

C17_Witness ==
    /\ InDemo
    /\ \E k \in Ticks :
          /\ SentBy(k, "msgf") /\ SentBy(k, "png") /\ SentBy(k, "track")
          /\ run.pc = "sleep"
          /\ k = Len(run.ticks)
          /\ run.next_png = At(run.now + args.png_every)
          /\ run.next_fetch = At(run.now + args.track_every)
          /\ run.next_png # run.next_fetch

(***************************************************************************)
(* C18: a write failure inside an iteration of run_demo ends the loop: the *)
(* exception leaves run_demo, the failed call is the last call made on the *)
(* sender and its writes are the last bytes on the wire.                   *)
(***************************************************************************)
C18_WriteFailureIsFatal ==
    InDemo =>
        \A i \in 1..Len(log) :
            log[i].err = "SerialException" =>
                /\ i = Len(log)
                /\ Len(wire) = log[i].at + log[i].nw - 1
                /\ run.exc = "SerialException"
                /\ run.pc \in {"finally", "exited"}

C18_Witness ==
    /\ InDemo
    /\ run.pc = "exited"
    /\ Len(run.ticks) = 2
    /\ Srcs(2) = <<"msgf", "png">>
    /\ log[Len(log)].err = "SerialException"
    /\ log[Len(log)].nw = 2
    /\ BufLen(wire[Len(wire)]) = 0

(***************************************************************************)
(* C19: the sleep at the end of an iteration is max(0, period - elapsed),  *)
(* elapsed being the time since the previous sleep ended (since loop entry *)
(* in the first iteration).  An iteration that took less than the period   *)
(* is followed by one that starts no earlier than one period after the     *)
(* previous sleep ended; one that took at least the period is followed     *)
(* immediately, and the next elapsed is counted from that moment.          *)
(***************************************************************************)
C19_FixedRateSleep ==
    InDemo =>
        \A k \in Ticks :
            LET t == run.ticks[k]
                P == Period(args.hz)
            IN  /\ k > 1 => t.last = run.ticks[k - 1].woke
                /\ k > 1 => t.now = run.ticks[k - 1].woke
                /\ Slept(k) =>
                      /\ t.sleep_s = P - Processing(k)
                      /\ t.slept <=> t.sleep_s > 0
                      /\ t.woke - t.end >= (IF t.sleep_s > 0 THEN t.sleep_s ELSE 0)
                      /\ Processing(k) < P => t.woke >= t.last + P
                      /\ Processing(k) >= P => t.woke = t.end

C19_Witness ==
    /\ InDemo
    /\ Len(run.ticks) = 3
    /\ Slept(1) /\ run.ticks[1].slept
    /\ Slept(2) /\ ~run.ticks[2].slept /\ Processing(2) > Period(args.hz)
    /\ Slept(3) /\ run.ticks[3].slept /\ run.ticks[3].sleep_s = 1

====
